---- MODULE Spec2Model ----
(***************************************************************************)
(* State-machine model of src/web/app.js: the window selection / dataset   *)
(* cache (setSelectedWindow, applyCustomRange and the handlers of their    *)
(* retrieval promises) and the chart layout and hover engine (drawChart,   *)
(* the mousemove / mouseleave / resize listeners).                         *)
(*                                                                         *)
(* JavaScript numbers are modelled exactly as rationals in fixed units:     *)
(* a horizontal quantity of a chart with N bars is an integer count of     *)
(* 1/XDen(N) pixels, a vertical quantity an integer count of 1/maxValue    *)
(* pixels.  Every division drawChart performs is exact in these units.     *)
(***************************************************************************)
EXTENDS Integers, Sequences, FiniteSets, TLC

VARIABLES
    selected,        \* state.selected
    cache,           \* state.cache: a Map, modelled as a function on its keys
    chartData,       \* state.chartData
    granularity,     \* state.granularity
    barRects,        \* state.barRects
    hoverIndex,      \* state.hoverIndex
    activeButton,    \* the button carrying the "active" class
    header,          \* windowLabel / windowRange texts
    stats,           \* uptimePct / costUsd texts
    chartTitle,      \* chartTitle text
    rangeBoxVisible, \* "visible" class of the range box
    boundingRect,    \* elements.chart.getBoundingClientRect(): set by the page layout
    surface,         \* size of the canvas: the rectangle the last drawChart() read
    inflight,        \* retrieval requests whose promise is still pending
    issued,          \* number of fetch calls made so far
    lastEvent,       \* the event handled by the most recent step
    frame,           \* what the canvas shows: gridline ticks, category labels, hover label
    tickCall,        \* the most recent call of getLinearTicks(): argument and returned list
    drew             \* whether the most recent step called drawChart()

vars == <<selected, cache, chartData, granularity, barRects, hoverIndex,
          activeButton, header, stats, chartTitle, rangeBoxVisible, boundingRect,
          surface, inflight, issued, lastEvent, frame, tickCall, drew>>

----------------------------------------------------------------------------
(* Bounds of the model. *)

\* fetch calls per behaviour, the one made at page load included
MaxRequests == 3
\* window buttons clicked in a behaviour: the last NumClickable entries of WINDOWS
NumClickable == 2
\* bars in the layout-only specification
MaxBars == 6
\* usable widths in the layout-only specification
MaxChartWidth == 40
\* arguments of getLinearTicks in the tick-only specification: -MaxNegTokens..MaxTickTokens
MaxTickTokens == 450
MaxNegTokens == 20

----------------------------------------------------------------------------
(* Program constants. *)

WINDOWS == <<[key |-> "1d", label |-> "1 day"],
             [key |-> "1w", label |-> "1 week"],
             [key |-> "1m", label |-> "1 month"],
             [key |-> "3m", label |-> "3 months"],
             [key |-> "1y", label |-> "1 year"],
             [key |-> "all", label |-> "All time"],
             [key |-> "custom", label |-> "Custom"]>>

WindowKeys == {WINDOWS[i].key : i \in 1..Len(WINDOWS)}

\* WINDOWS.find((w) => w.key === key)?.label ?? key
LabelOf(key) ==
    IF key \in WindowKeys
    THEN (CHOOSE w \in {WINDOWS[i] : i \in 1..Len(WINDOWS)} : w.key = key).label
    ELSE key

PadTop == 24
PadRight == 20
PadBottom == 34
PadLeft == 56
MinBarWidth == 3
MaxGap == 10
MinGap == 1

\* hoverIndex: null
Null == -1

Max(a, b) == IF a >= b THEN a ELSE b

----------------------------------------------------------------------------
(* Datasets the retrieval capability may return (the /api/uptime body).    *)
(* Dataset(i) has i buckets; instants are integers; percent_any_instance   *)
(* is counted in thousandths of a percent and cost_total_usd in cents, so  *)
(* that toFixed(3) and toFixed(2) are exact.  Dataset(0) is the sparse     *)
(* answer: no buckets, granularity and both stats absent.  A token count   *)
(* is a number >= 0, not always whole: an entry holds it as `tokens` units *)
(* of 1/`unit` token, with the same unit in all entries of a dataset.      *)
(* Datasets 100 + n have n buckets without tokens, datasets 200 + n have   *)
(* n buckets of half a token or none, datasets 300 + n have n buckets of   *)
(* a quarter of a token or none.                                           *)

TokensOf(i, j) ==
    IF i >= 200 THEN j % 2 ELSE IF i >= 100 THEN 0 ELSE ((i + j) % 3) * 100

\* the unit of the token counts of Dataset(i): quarters for 300 + n, halves for
\* 200 + n, else whole tokens
UnitOf(i) == IF i >= 300 THEN 4 ELSE IF i >= 200 THEN 2 ELSE 1

Dataset(i) ==
    [window_start |-> 10 + i,
     window_end |-> 20 + i,
     granularity |-> IF i = 0 THEN "" ELSE IF i % 2 = 1 THEN "hour" ELSE "day",
     token_buckets |-> [j \in 1..(i % 100) |-> [bucket_start |-> 10 + i + j,
                                               tokens |-> TokensOf(i, j),
                                               unit |-> UnitOf(i)]],
     percent_any_instance |-> IF i = 0 THEN Null ELSE 12345 * i,
     cost_total_usd |-> IF i = 0 THEN Null ELSE 150 * i,
     cost_partial |-> (i % 2 = 0)]

\* the datasets the retrieval answers with in Spec: the sparse one and a one-bucket one
DatasetIds == {0, 1}

\* the buttons clicked: "custom", "all" (the selection at load) and the presets before them
ClickKeys == {WINDOWS[i].key : i \in (Len(WINDOWS) - NumClickable + 1)..Len(WINDOWS)}

\* err.message of a rejected retrieval
Messages == {"Failed to fetch uptime"}

\* values of the start and end inputs when Apply is clicked ("" is an empty input)
StartInputs == {"", "2024-01-01T00:00"}
EndInputs == {"", "2024-01-08T00:00"}

\* bounding rectangles the page layout gives the canvas
Surfaces == {[width |-> 310, height |-> 200], [width |-> 80, height |-> 200]}

\* pointer positions, relative to the canvas
Pointers == {<<60, 100>>, <<200, 100>>, <<60, 166>>, <<300, 10>>}

----------------------------------------------------------------------------
(* Texts written to the page. *)

\* formatPct
formatPct(value) ==
    IF value = Null THEN [kind |-> "--", num |-> 0, msg |-> ""]
    ELSE [kind |-> "pct", num |-> value, msg |-> ""]

ErrorText(msg) == [kind |-> "error", num |-> 0, msg |-> msg]

Placeholder == [kind |-> "--", num |-> 0, msg |-> ""]

\* updateHeader(data, label); hasData = FALSE stands for updateHeader(null, label)
updateHeader(hasData, data, label) ==
    IF hasData /\ data.window_start # 0 /\ data.window_end # 0
    THEN [windowLabel |-> label, kind |-> "range",
          start |-> data.window_start, end |-> data.window_end]
    ELSE [windowLabel |-> label, kind |-> "Pick a range", start |-> 0, end |-> 0]

\* updateChartMeta
updateChartMeta(data) ==
    IF data.granularity # "" THEN data.granularity ELSE "day"

\* updateStats
updateStats(data) ==
    [uptimePct |-> formatPct(data.percent_any_instance),
     costUsd |-> IF data.cost_total_usd # Null
                 THEN [kind |-> IF data.cost_partial THEN "~$" ELSE "$",
                       num |-> data.cost_total_usd, msg |-> ""]
                 ELSE Placeholder]

----------------------------------------------------------------------------
(* drawChart *)

ChartWidth(s) == s.width - PadLeft - PadRight
ChartHeight(s) == s.height - PadTop - PadBottom

\* unit of the horizontal quantities of a chart with n bars: 1/XDen(n) pixel
XDen(n) == IF n > 1 THEN 10 * n * (n - 1) ELSE 1

\* mutant: the width is not floored again after the gap is clamped to 1
BarPackingNoSecondFloor(n, chartWidth) ==
    IF n > 1
    THEN LET D == XDen(n)
             targetWidth == 7 * chartWidth * (n - 1)
             barWidth0 == Max(MinBarWidth * D, targetWidth)
             barGap0 == (chartWidth * D - barWidth0 * n) \div (n - 1)
         IN  IF barGap0 < MinGap * D
             THEN [barGap |-> MinGap * D,
                   barWidth |-> (chartWidth * D - MinGap * D * (n - 1)) \div n]
             ELSE IF barGap0 > MaxGap * D
             THEN [barGap |-> MaxGap * D,
                   barWidth |-> (chartWidth * D - MaxGap * D * (n - 1)) \div n]
             ELSE [barGap |-> barGap0, barWidth |-> barWidth0]
    ELSE [barGap |-> MaxGap, barWidth |-> chartWidth]

\* barWidth and barGap of drawChart, in units of 1/XDen(n) pixel
BarPacking(n, chartWidth) ==
    IF n > 1
    THEN LET D == XDen(n)
             targetWidth == 7 * chartWidth * (n - 1)
             barWidth0 == Max(MinBarWidth * D, targetWidth)
             barGap0 == (chartWidth * D - barWidth0 * n) \div (n - 1)
         IN  IF barGap0 < MinGap * D
             THEN [barGap |-> MinGap * D,
                   barWidth |-> Max(MinBarWidth * D,
                                    (chartWidth * D - MinGap * D * (n - 1)) \div n)]
             ELSE IF barGap0 > MaxGap * D
             THEN [barGap |-> MaxGap * D,
                   barWidth |-> (chartWidth * D - MaxGap * D * (n - 1)) \div n]
             ELSE [barGap |-> barGap0, barWidth |-> barWidth0]
    ELSE [barGap |-> MaxGap, barWidth |-> chartWidth]

\* The code computes in IEEE-754 doubles, the model in exact fractions. The two
\* agree on every comparison of a pointer position with an edge except where the
\* exact edge is the pointer position itself and the double that stands for it
\* was rounded. OddPart, Dyadic, PackingRounded and HeightRounded tell which
\* rectangles have rounded edges.
RECURSIVE OddPart(_)
OddPart(k) == IF k % 2 = 0 THEN OddPart(k \div 2) ELSE k

\* num / den is a fraction with a power of two as denominator: the double
\* division of the two integers is exact
Dyadic(num, den) == den > 0 /\ num % OddPart(den) = 0

\* whether barWidth and barGap of drawChart are rounded doubles. They are exact
\* for at most one entry, when both are clamped to the constants 3 and 1, and
\* when barWidth is 3 or barGap is 10 and the single division that gives the
\* other is exact; chartWidth * 0.7 is taken to be rounded.
PackingRounded(n, chartWidth) ==
    IF n > 1
    THEN LET D == XDen(n)
             targetWidth == 7 * chartWidth * (n - 1)
             barWidth0 == Max(MinBarWidth * D, targetWidth)
             barGap0 == (chartWidth * D - barWidth0 * n) \div (n - 1)
         IN  IF barGap0 < MinGap * D
             THEN FALSE
             ELSE IF barGap0 > MaxGap * D
             THEN ~Dyadic(chartWidth - MaxGap * (n - 1), n)
             ELSE IF targetWidth < MinBarWidth * D
             THEN ~Dyadic(chartWidth - MinBarWidth * n, n - 1)
             ELSE TRUE
    ELSE FALSE

\* whether heightPx = (tokens / maxValue) * chartHeight is a rounded double
HeightRounded(tokens, maxValue) == ~Dyadic(tokens, maxValue)

RECURSIVE MaxTokensFrom(_, _)
MaxTokensFrom(entries, k) ==
    IF k > Len(entries) THEN 0
    ELSE Max(entries[k].tokens, MaxTokensFrom(entries, k + 1))

\* Math.max(0, ...entries.map((entry) => entry.tokens || 0)), in units of
\* 1/TokenUnit(entries) token
MaxTokens(entries) == MaxTokensFrom(entries, 1)

\* the unit the token counts of the entries are held in
TokenUnit(entries) == IF entries = <<>> THEN 1 ELSE entries[1].unit

\* mutant: the largest token count is the denominator even when it is 0
MaxValueNoFloor(entries) == MaxTokens(entries)

\* maxTokens === 0 ? 1 : maxTokens, in units of 1/TokenUnit(entries) token: one
\* token is TokenUnit(entries) units
MaxValue(entries) ==
    IF MaxTokens(entries) = 0 THEN TokenUnit(entries) ELSE MaxTokens(entries)

\* mutant: the bars are placed without the gap between them
BarRectNoGap(entries, index, s) ==
    LET pack == BarPacking(Len(entries), ChartWidth(s))
        xden == XDen(Len(entries))
        yden == MaxValue(entries)
        tokens == entries[index + 1].tokens
        x == index * pack.barWidth
        heightPx == tokens * ChartHeight(s)
        y == ChartHeight(s) * yden - heightPx
    IN  [index |-> index,
         x |-> PadLeft * xden + x,
         y |-> PadTop * yden + y,
         width |-> pack.barWidth,
         height |-> heightPx,
         xden |-> xden,
         yden |-> yden,
         xrounded |-> PackingRounded(Len(entries), ChartWidth(s)),
         yrounded |-> HeightRounded(tokens, yden) \/ ~Dyadic(1, TokenUnit(entries))]

\* the rectangle pushed for entries[index + 1] (index counts from 0 as in the code);
\* x, width in 1/xden pixel, y, height in 1/yden pixel; xrounded, yrounded: whether
\* the doubles x, width and y, height of the code are rounded (token counts that
\* are no doubles, such as thirds, are rounded before they are divided)
BarRect(entries, index, s) ==
    LET pack == BarPacking(Len(entries), ChartWidth(s))
        xden == XDen(Len(entries))
        yden == MaxValue(entries)
        tokens == entries[index + 1].tokens
        x == index * (pack.barWidth + pack.barGap)
        heightPx == tokens * ChartHeight(s)
        y == ChartHeight(s) * yden - heightPx
    IN  [index |-> index,
         x |-> PadLeft * xden + x,
         y |-> PadTop * yden + y,
         width |-> pack.barWidth,
         height |-> heightPx,
         xden |-> xden,
         yden |-> yden,
         xrounded |-> PackingRounded(Len(entries), ChartWidth(s)),
         yrounded |-> HeightRounded(tokens, yden) \/ ~Dyadic(1, TokenUnit(entries))]

\* mutant: the rectangles are pushed onto the list of the previous drawChart()
DrawChartAppends(entries, s) ==
    barRects \o [i \in 1..Len(entries) |-> BarRect(entries, i - 1, s)]

\* state.barRects after drawChart()
DrawChart(entries, s) == [i \in 1..Len(entries) |-> BarRect(entries, i - 1, s)]

\* Tick values are counted in tenths: for an integer maxTokens >= 1 the magnitude
\* Math.pow(10, Math.floor(Math.log10(maxTokens / 4))) is at least 1/10.
\* Magnitude10(maxTokens, p): ten times the magnitude, searched upwards from p:
\* the largest power of ten p / 10 with p / 10 <= maxTokens / 4
RECURSIVE Magnitude10(_, _)
Magnitude10(maxTokens, p) ==
    IF 4 * (10 * p) <= 10 * maxTokens THEN Magnitude10(maxTokens, 10 * p) ELSE p

\* mutant: the rule never picks 2 * magnitude
TickStep10SkipsTwo(maxTokens) ==
    LET magnitude == Magnitude10(maxTokens, 1)
    IN  IF 10 * maxTokens >= 4 * 5 * magnitude THEN 5 * magnitude
        ELSE magnitude

\* ten times the step of getLinearTicks: normalized = roughStep / magnitude,
\* 5 * magnitude if normalized >= 5, 2 * magnitude if normalized >= 2
TickStep10(maxTokens) ==
    LET magnitude == Magnitude10(maxTokens, 1)
    IN  IF 10 * maxTokens >= 4 * 5 * magnitude THEN 5 * magnitude
        ELSE IF 10 * maxTokens >= 4 * 2 * magnitude THEN 2 * magnitude
        ELSE magnitude

\* for (let value = 0; value <= maxTokens + step * 0.5; value += step) ticks.push(value)
RECURSIVE TicksFrom(_, _, _)
TicksFrom(value, maxTokens, step) ==
    IF 2 * value <= 2 * 10 * maxTokens + step
    THEN <<value>> \o TicksFrom(value + step, maxTokens, step)
    ELSE <<>>

\* mutant: only maxTokens = 0 returns [0]
getLinearTicksZeroOnly(maxTokens) ==
    IF maxTokens = 0 THEN <<0>>
    ELSE TicksFrom(0, maxTokens, TickStep10(maxTokens))

\* getLinearTicks(maxTokens), the ticks in tenths
getLinearTicks(maxTokens) ==
    IF maxTokens <= 0 THEN <<0>>
    ELSE TicksFrom(0, maxTokens, TickStep10(maxTokens))

\* getLinearTicks for a maxTokens of num / unit tokens. The ticks are counted in
\* 1/TickDen token: TickDen is 10 when roughStep = maxTokens / 4 is at least 1/10
\* (and for maxTokens <= 0), else the power of ten whose inverse is the
\* magnitude Math.pow(10, Math.floor(Math.log10(roughStep))).
RECURSIVE TickDenFrom(_, _, _)
TickDenFrom(num, unit, den) ==
    IF 4 * unit <= num * den THEN den ELSE TickDenFrom(num, unit, 10 * den)

TickDen(num, unit) == IF num <= 0 THEN 10 ELSE TickDenFrom(num, unit, 10)

\* MagnitudeIn, TickStepIn, TicksFromIn are Magnitude10, TickStep10, TicksFrom
\* with tenths replaced by 1/den and both sides of every comparison multiplied
\* by unit.
RECURSIVE MagnitudeIn(_, _, _, _)
MagnitudeIn(num, unit, den, p) ==
    IF 4 * unit * (10 * p) <= den * num THEN MagnitudeIn(num, unit, den, 10 * p) ELSE p

TickStepIn(num, unit, den) ==
    LET magnitude == MagnitudeIn(num, unit, den, 1)
    IN  IF den * num >= 4 * 5 * magnitude * unit THEN 5 * magnitude
        ELSE IF den * num >= 4 * 2 * magnitude * unit THEN 2 * magnitude
        ELSE magnitude

RECURSIVE TicksFromIn(_, _, _, _, _)
TicksFromIn(value, num, unit, den, step) ==
    IF 2 * unit * value <= 2 * den * num + step * unit
    THEN <<value>> \o TicksFromIn(value + step, num, unit, den, step)
    ELSE <<>>

\* The lists getLinearTicks(num / unit) may return. When the last value of the
\* loop equals maxTokens + step * 0.5 and the step is not a binary fraction,
\* the comparison `value <= maxTokens + step * 0.5` is between two rounded
\* sums and the last tick is pushed or not.
getLinearTicksOf(num, unit) ==
    IF num <= 0 THEN {<<0>>}
    ELSE LET den == TickDen(num, unit)
             step == TickStepIn(num, unit, den)
             ticks == TicksFromIn(0, num, unit, den, step)
             last == ticks[Len(ticks)]
         IN  IF 2 * unit * last = 2 * den * num + step * unit /\ ~Dyadic(step, den)
             THEN {ticks, SubSeq(ticks, 1, Len(ticks) - 1)}
             ELSE {ticks}

\* const ticks = getLinearTicks(maxTokens) of drawChart: the lists the call may
\* return, the ticks in 1/DrawTickDen(entries) token
DrawTicks(entries) ==
    IF TokenUnit(entries) = 1
    THEN {getLinearTicks(MaxTokens(entries))}
    ELSE getLinearTicksOf(MaxTokens(entries), TokenUnit(entries))

DrawTickDen(entries) ==
    IF TokenUnit(entries) = 1 THEN 10 ELSE TickDen(MaxTokens(entries), TokenUnit(entries))

\* labelEvery of drawChart
LabelEvery(n) == IF n > 18 THEN (n + 11) \div 12 ELSE 1

\* the format formatBucketLabel picks for a granularity
formatBucketLabel(gran) ==
    IF gran = "hour" THEN "hour:minute"
    ELSE IF gran = "month" THEN "year month"
    ELSE "month day"

\* before the first call of getLinearTicks()
NoTickCall == [maxTokens |-> 0, unit |-> 1, tickDen |-> 10, ticks |-> <<>>]

\* the canvas before the first drawChart()
BlankFrame ==
    [ticks |-> <<>>, tickDen |-> 10, labelled |-> {}, labelFormat |-> "",
     hoverBar |-> Null, hoverTokens |-> Null, unit |-> 1]

\* what drawChart() paints besides the bars: the gridline of every tick of the
\* list getLinearTicks returned (in units of 1/tickDen token), the category
\* label of every labelEvery-th bar, the token count above the hovered bar (in
\* units of 1/unit token)
DrawFrame(entries, ticks, hover, gran) ==
    [ticks |-> ticks,
     tickDen |-> DrawTickDen(entries),
     labelled |-> {i \in 0..(Len(entries) - 1) : i % LabelEvery(Len(entries)) = 0},
     labelFormat |-> formatBucketLabel(gran),
     hoverBar |-> IF hover \in 0..(Len(entries) - 1) THEN hover ELSE Null,
     hoverTokens |-> IF hover \in 0..(Len(entries) - 1)
                     THEN entries[hover + 1].tokens ELSE Null,
     unit |-> TokenUnit(entries)]

\* a call of drawChart() with state.chartData = entries, state.hoverIndex = hover,
\* state.granularity = gran while the bounding rectangle of the canvas is s: the
\* canvas takes the size of s and the chart is laid out on it
Redraw(entries, s, hover, gran) ==
    /\ surface' = s
    /\ barRects' = DrawChart(entries, s)
    /\ \E ticks \in DrawTicks(entries) :
          /\ frame' = DrawFrame(entries, ticks, hover, gran)
          /\ tickCall' = [maxTokens |-> MaxTokens(entries),
                          unit |-> TokenUnit(entries),
                          tickDen |-> DrawTickDen(entries),
                          ticks |-> ticks]
    /\ drew' = TRUE

\* a handler path that does not reach drawChart(): the canvas keeps its size
NoRedraw ==
    /\ UNCHANGED <<surface, barRects, frame, tickCall>>
    /\ drew' = FALSE

----------------------------------------------------------------------------
(* Requests and events. *)

\* fetchUptime({ window: key }) called by setSelectedWindow
WindowRequest(id, key) ==
    [id |-> id, from |-> "setSelectedWindow", window |-> key, start |-> "", end |-> ""]

\* fetchUptime({ start, end }) called by applyCustomRange
RangeRequest(id, start, end) ==
    [id |-> id, from |-> "applyCustomRange", window |-> "", start |-> start, end |-> end]

\* the event a step handled: a call (op, key or start/end or pointer x/y) or the
\* settlement of request req with dataset `data` or with an error
Event(op, key, req, data, a, b) ==
    [op |-> op, key |-> key, req |-> req, data |-> data, a |-> a, b |-> b]

\* mutant: the map is replaced by one holding only the new entry
CacheSetDropsOthers(c, key, data) == [k \in {key} |-> data]

\* state.cache.set(key, data)
CacheSet(c, key, data) ==
    [k \in DOMAIN c \cup {key} |-> IF k = key THEN data ELSE c[k]]

\* the body shared by the two success handlers and the cached branch:
\* updateHeader, updateStats, updateChartMeta, chartData, granularity, drawChart
Render(data, label) ==
    /\ header' = updateHeader(TRUE, data, label)
    /\ stats' = updateStats(data)
    /\ chartTitle' = updateChartMeta(data)
    /\ chartData' = data.token_buckets
    /\ granularity' = (IF data.granularity # "" THEN data.granularity ELSE "day")
    /\ Redraw(data.token_buckets, boundingRect, hoverIndex,
              IF data.granularity # "" THEN data.granularity ELSE "day")

----------------------------------------------------------------------------
(* The state after the script has run: setupButtons ... setSelectedWindow   *)
(* (state.selected) at the end of the file has issued the request for       *)
(* "all".                                                                   *)

Init ==
    /\ selected = "all"
    /\ cache = <<>>
    /\ chartData = <<>>
    /\ granularity = "day"
    /\ barRects = <<>>
    /\ hoverIndex = Null
    /\ activeButton = "all"
    /\ header = [windowLabel |-> "", kind |-> "", start |-> 0, end |-> 0]
    /\ stats = [uptimePct |-> Placeholder, costUsd |-> Placeholder]
    /\ chartTitle = ""
    /\ rangeBoxVisible = FALSE
    /\ boundingRect = [width |-> 310, height |-> 200]
    /\ surface = boundingRect
    /\ inflight = {WindowRequest(1, "all")}
    /\ issued = 1
    /\ lastEvent = Event("load", "all", 1, Null, "", "")
    /\ frame = BlankFrame
    /\ tickCall = NoTickCall
    /\ drew = FALSE

----------------------------------------------------------------------------
(* setSelectedWindow(key): a click on a window button *)

\* mutant: the cache is never consulted, every preset selection fetches
SelectBranchIgnoresCache(c, key) ==
    IF key = "custom" /\ key \notin DOMAIN c THEN "placeholder" ELSE "fetch"

\* mutant: no placeholder branch, an un-applied custom selection fetches
SelectBranchNoPlaceholder(c, key) ==
    IF key \in DOMAIN c THEN "cached" ELSE "fetch"

\* the path setSelectedWindow takes for `key` given the cache c:
\* if (key === "custom" && !cached) ... return; if (cached) ... return; fetchUptime(...)
SelectBranch(c, key) ==
    IF key = "custom" /\ key \notin DOMAIN c THEN "placeholder"
    ELSE IF key \in DOMAIN c THEN "cached"
    ELSE "fetch"

SetSelectedWindow(key) ==
    /\ selected' = key
    /\ activeButton' = key
    /\ rangeBoxVisible' = (key = "custom")
    /\ CASE SelectBranch(cache, key) = "placeholder" ->
              /\ header' = updateHeader(FALSE, <<>>, LabelOf(key))
              /\ stats' = [uptimePct |-> Placeholder, costUsd |-> Placeholder]
              /\ chartData' = <<>>
              /\ Redraw(<<>>, boundingRect, hoverIndex, granularity)
              /\ lastEvent' = Event("setSelectedWindow", key, 0, Null, "", "")
              /\ UNCHANGED <<cache, granularity, chartTitle, inflight, issued>>
         [] SelectBranch(cache, key) = "cached" ->
              /\ Render(cache[key], LabelOf(key))
              /\ lastEvent' = Event("setSelectedWindow", key, 0, Null, "", "")
              /\ UNCHANGED <<cache, inflight, issued>>
         [] SelectBranch(cache, key) = "fetch" ->
              /\ issued < MaxRequests
              /\ inflight' = inflight \cup {WindowRequest(issued + 1, key)}
              /\ issued' = issued + 1
              /\ lastEvent' = Event("setSelectedWindow", key, issued + 1, Null, "", "")
              /\ NoRedraw
              /\ UNCHANGED <<cache, chartData, granularity, header, stats,
                             chartTitle>>
    /\ UNCHANGED <<hoverIndex, boundingRect>>

\* mutant: a response is dropped when its key is no longer the selection
SelectResolvedIfCurrent(r, d) ==
    /\ r \in inflight
    /\ r.from = "setSelectedWindow"
    /\ inflight' = inflight \ {r}
    /\ lastEvent' = Event("setSelectedWindow.then", r.window, r.id, d, "", "")
    /\ IF selected = r.window
       THEN /\ cache' = CacheSet(cache, r.window, Dataset(d))
            /\ Render(Dataset(d), LabelOf(r.window))
       ELSE /\ NoRedraw
            /\ UNCHANGED <<cache, header, stats, chartTitle, chartData, granularity>>
    /\ UNCHANGED <<selected, activeButton, rangeBoxVisible, hoverIndex, boundingRect, issued>>

\* mutant: a response for a key that already has an entry is dropped (first wins)
SelectResolvedKeepsFirst(r, d) ==
    /\ r \in inflight
    /\ r.from = "setSelectedWindow"
    /\ inflight' = inflight \ {r}
    /\ lastEvent' = Event("setSelectedWindow.then", r.window, r.id, d, "", "")
    /\ IF r.window \notin DOMAIN cache
       THEN /\ cache' = CacheSet(cache, r.window, Dataset(d))
            /\ Render(Dataset(d), LabelOf(r.window))
       ELSE /\ NoRedraw
            /\ UNCHANGED <<cache, header, stats, chartTitle, chartData, granularity>>
    /\ UNCHANGED <<selected, activeButton, rangeBoxVisible, hoverIndex, boundingRect, issued>>

\* .then of setSelectedWindow's fetchUptime: request r resolves with Dataset(d)
SelectResolved(r, d) ==
    /\ r \in inflight
    /\ r.from = "setSelectedWindow"
    /\ inflight' = inflight \ {r}
    /\ cache' = CacheSet(cache, r.window, Dataset(d))
    /\ Render(Dataset(d), LabelOf(r.window))
    /\ lastEvent' = Event("setSelectedWindow.then", r.window, r.id, d, "", "")
    /\ UNCHANGED <<selected, activeButton, rangeBoxVisible, hoverIndex, boundingRect, issued>>

\* mutant: the failure handler also clears the chart
SelectRejectedClearsChart(r, msg) ==
    /\ r \in inflight
    /\ r.from = "setSelectedWindow"
    /\ inflight' = inflight \ {r}
    /\ stats' = [stats EXCEPT !.uptimePct = ErrorText(msg)]
    /\ chartData' = <<>>
    /\ Redraw(<<>>, boundingRect, hoverIndex, granularity)
    /\ lastEvent' = Event("setSelectedWindow.catch", r.window, r.id, Null, msg, "")
    /\ UNCHANGED <<selected, cache, granularity, hoverIndex,
                   activeButton, header, chartTitle, rangeBoxVisible, boundingRect, issued>>

\* .catch of setSelectedWindow's fetchUptime: request r rejects with message msg
SelectRejected(r, msg) ==
    /\ r \in inflight
    /\ r.from = "setSelectedWindow"
    /\ inflight' = inflight \ {r}
    /\ stats' = [stats EXCEPT !.uptimePct = ErrorText(msg)]
    /\ lastEvent' = Event("setSelectedWindow.catch", r.window, r.id, Null, msg, "")
    /\ NoRedraw
    /\ UNCHANGED <<selected, cache, chartData, granularity, hoverIndex,
                   activeButton, header, chartTitle, rangeBoxVisible, boundingRect, issued>>

----------------------------------------------------------------------------
(* applyCustomRange(): a click on Apply with the inputs holding start, end *)

\* mutant: an existing custom entry is served from the cache instead of refetched
ApplyCustomRangeSkipsCached(start, end) ==
    /\ lastEvent' = Event("applyCustomRange", "custom",
                          IF start = "" \/ end = "" \/ "custom" \in DOMAIN cache
                          THEN 0 ELSE issued + 1,
                          Null, start, end)
    /\ IF start = "" \/ end = "" \/ "custom" \in DOMAIN cache
       THEN UNCHANGED <<inflight, issued>>
       ELSE /\ issued < MaxRequests
            /\ inflight' = inflight \cup {RangeRequest(issued + 1, start, end)}
            /\ issued' = issued + 1
    /\ NoRedraw
    /\ UNCHANGED <<selected, cache, chartData, granularity, hoverIndex,
                   activeButton, header, stats, chartTitle, rangeBoxVisible, boundingRect>>

ApplyCustomRange(start, end) ==
    /\ lastEvent' = Event("applyCustomRange", "custom",
                          IF start = "" \/ end = "" THEN 0 ELSE issued + 1,
                          Null, start, end)
    /\ IF start = "" \/ end = ""
       THEN UNCHANGED <<inflight, issued>>
       ELSE /\ issued < MaxRequests
            /\ inflight' = inflight \cup {RangeRequest(issued + 1, start, end)}
            /\ issued' = issued + 1
    /\ NoRedraw
    /\ UNCHANGED <<selected, cache, chartData, granularity, hoverIndex,
                   activeButton, header, stats, chartTitle, rangeBoxVisible, boundingRect>>

\* mutant: setActiveButton("custom") is left out
ApplyResolvedNoIndicator(r, d) ==
    /\ r \in inflight
    /\ r.from = "applyCustomRange"
    /\ inflight' = inflight \ {r}
    /\ cache' = CacheSet(cache, "custom", Dataset(d))
    /\ selected' = "custom"
    /\ Render(Dataset(d), "Custom")
    /\ rangeBoxVisible' = TRUE
    /\ lastEvent' = Event("applyCustomRange.then", "custom", r.id, d, r.start, r.end)
    /\ UNCHANGED <<activeButton, hoverIndex, boundingRect, issued>>

\* mutant: the response is rendered without making custom the selection
ApplyResolvedKeepsSelection(r, d) ==
    /\ r \in inflight
    /\ r.from = "applyCustomRange"
    /\ inflight' = inflight \ {r}
    /\ cache' = CacheSet(cache, "custom", Dataset(d))
    /\ Render(Dataset(d), "Custom")
    /\ rangeBoxVisible' = TRUE
    /\ lastEvent' = Event("applyCustomRange.then", "custom", r.id, d, r.start, r.end)
    /\ UNCHANGED <<selected, activeButton, hoverIndex, boundingRect, issued>>

\* mutant: the dataset is rendered without being stored in the cache
ApplyResolvedSkipsCache(r, d) ==
    /\ r \in inflight
    /\ r.from = "applyCustomRange"
    /\ inflight' = inflight \ {r}
    /\ selected' = "custom"
    /\ activeButton' = "custom"
    /\ Render(Dataset(d), "Custom")
    /\ rangeBoxVisible' = TRUE
    /\ lastEvent' = Event("applyCustomRange.then", "custom", r.id, d, r.start, r.end)
    /\ UNCHANGED <<cache, hoverIndex, boundingRect, issued>>

\* .then of applyCustomRange's fetchUptime
ApplyResolved(r, d) ==
    /\ r \in inflight
    /\ r.from = "applyCustomRange"
    /\ inflight' = inflight \ {r}
    /\ cache' = CacheSet(cache, "custom", Dataset(d))
    /\ selected' = "custom"
    /\ activeButton' = "custom"
    /\ Render(Dataset(d), "Custom")
    /\ rangeBoxVisible' = TRUE
    /\ lastEvent' = Event("applyCustomRange.then", "custom", r.id, d, r.start, r.end)
    /\ UNCHANGED <<hoverIndex, boundingRect, issued>>

\* .catch of applyCustomRange's fetchUptime
ApplyRejected(r, msg) ==
    /\ r \in inflight
    /\ r.from = "applyCustomRange"
    /\ inflight' = inflight \ {r}
    /\ stats' = [stats EXCEPT !.uptimePct = ErrorText(msg)]
    /\ lastEvent' = Event("applyCustomRange.catch", "custom", r.id, Null, msg, "")
    /\ NoRedraw
    /\ UNCHANGED <<selected, cache, chartData, granularity, hoverIndex,
                   activeButton, header, chartTitle, rangeBoxVisible, boundingRect, issued>>

----------------------------------------------------------------------------
(* setupChartInteraction: the mousemove, mouseleave and resize listeners *)

\* the point is in the rectangle, edges included, in exact arithmetic
InClosedRect(bar, x, y) ==
    /\ x * bar.xden >= bar.x
    /\ x * bar.xden <= bar.x + bar.width
    /\ y * bar.yden >= bar.y
    /\ y * bar.yden <= bar.y + bar.height

\* the point is exactly on an edge whose double is rounded; the left edge of
\* the first bar, padding.left + 0, never is
OnRoundedEdge(bar, x, y) ==
    \/ /\ bar.xrounded
       /\ \/ x * bar.xden = bar.x /\ bar.index > 0
          \/ x * bar.xden = bar.x + bar.width
    \/ /\ bar.yrounded
       /\ \/ y * bar.yden = bar.y
          \/ y * bar.yden = bar.y + bar.height

\* mutant: the hit test compares the horizontal position only
ContainsColumn(bar, x, y) ==
    {x * bar.xden >= bar.x /\ x * bar.xden <= bar.x + bar.width}

\* (bar) => x >= bar.x && x <= bar.x + bar.width && y >= bar.y && y <= bar.y + bar.height:
\* the values the predicate can take. On a rounded edge the double may lie on
\* either side of the pointer, and the predicate may be true or false.
Contains(bar, x, y) ==
    IF InClosedRect(bar, x, y) /\ OnRoundedEdge(bar, x, y)
    THEN BOOLEAN
    ELSE {InClosedRect(bar, x, y)}

\* mutant: the position in the list, counted from 1, is taken for the index
HitIndexPosition(rects, x, y) ==
    {i \in 1..Len(rects) :
        /\ TRUE \in Contains(rects[i], x, y)
        /\ \A j \in 1..(i - 1) : FALSE \in Contains(rects[j], x, y)}
    \cup (IF \A i \in 1..Len(rects) : FALSE \in Contains(rects[i], x, y)
          THEN {Null} ELSE {})

\* state.barRects.find(...), then hit ? hit.index : null: the values nextIndex can
\* take, the index of a rectangle the predicate can hold for while it fails for
\* all the rectangles before it, or null when it can fail for all
HitIndex(rects, x, y) ==
    {rects[i].index : i \in {i \in 1..Len(rects) :
        /\ TRUE \in Contains(rects[i], x, y)
        /\ \A j \in 1..(i - 1) : FALSE \in Contains(rects[j], x, y)}}
    \cup (IF \A i \in 1..Len(rects) : FALSE \in Contains(rects[i], x, y)
          THEN {Null} ELSE {})

\* mutant: the mousemove listener redraws whether or not the index changed
MouseMoveAlwaysRedraws(x, y) ==
    \E nextIndex \in HitIndex(barRects, x, y) :
        /\ hoverIndex' = nextIndex
        /\ Redraw(chartData, boundingRect, nextIndex, granularity)
        /\ lastEvent' = Event("mousemove", "", 0, Null, x, y)
        /\ UNCHANGED <<selected, cache, chartData, granularity, activeButton, header,
                       stats, chartTitle, rangeBoxVisible, boundingRect, inflight, issued>>

MouseMove(x, y) ==
    \E nextIndex \in HitIndex(barRects, x, y) :
        /\ IF hoverIndex # nextIndex
           THEN /\ hoverIndex' = nextIndex
                /\ Redraw(chartData, boundingRect, nextIndex, granularity)
           ELSE UNCHANGED hoverIndex /\ NoRedraw
        /\ lastEvent' = Event("mousemove", "", 0, Null, x, y)
        /\ UNCHANGED <<selected, cache, chartData, granularity, activeButton, header,
                       stats, chartTitle, rangeBoxVisible, boundingRect, inflight, issued>>

MouseLeave ==
    /\ IF hoverIndex # Null
       THEN /\ hoverIndex' = Null
            /\ Redraw(chartData, boundingRect, Null, granularity)
       ELSE UNCHANGED hoverIndex /\ NoRedraw
    /\ lastEvent' = Event("mouseleave", "", 0, Null, "", "")
    /\ UNCHANGED <<selected, cache, chartData, granularity, activeButton, header,
                   stats, chartTitle, rangeBoxVisible, boundingRect, inflight, issued>>

\* the page layout gives the canvas element another bounding rectangle (the
\* window is being resized); no listener has run yet
BoundingRectChange(s) ==
    /\ s # boundingRect
    /\ boundingRect' = s
    /\ NoRedraw
    /\ lastEvent' = Event("layout", "", 0, Null, "", "")
    /\ UNCHANGED <<selected, cache, chartData, granularity, hoverIndex, activeButton,
                   header, stats, chartTitle, rangeBoxVisible, inflight, issued>>

\* mutant: the resize listener clears the hover index before it redraws
ResizeClearsHover ==
    /\ hoverIndex' = Null
    /\ Redraw(chartData, boundingRect, Null, granularity)
    /\ lastEvent' = Event("resize", "", 0, Null, "", "")
    /\ UNCHANGED <<selected, cache, chartData, granularity, activeButton, header,
                   stats, chartTitle, rangeBoxVisible, boundingRect, inflight, issued>>

\* the resize listener: drawChart()
Resize ==
    /\ Redraw(chartData, boundingRect, hoverIndex, granularity)
    /\ lastEvent' = Event("resize", "", 0, Null, "", "")
    /\ UNCHANGED <<selected, cache, chartData, granularity, hoverIndex, activeButton,
                   header, stats, chartTitle, rangeBoxVisible, boundingRect, inflight,
                   issued>>

----------------------------------------------------------------------------

Next ==
    \/ \E key \in ClickKeys : SetSelectedWindow(key)
    \/ \E r \in inflight, d \in DatasetIds : SelectResolved(r, d)
    \/ \E r \in inflight, msg \in Messages : SelectRejected(r, msg)
    \/ \E start \in StartInputs, end \in EndInputs : ApplyCustomRange(start, end)
    \/ \E r \in inflight, d \in DatasetIds : ApplyResolved(r, d)
    \/ \E r \in inflight, msg \in Messages : ApplyRejected(r, msg)
    \/ \E p \in Pointers : MouseMove(p[1], p[2])
    \/ MouseLeave
    \/ \E s \in Surfaces : BoundingRectChange(s)
    \/ Resize

Spec == Init /\ [][Next]_vars

----------------------------------------------------------------------------
(* The layout engine on its own: the page is loaded on a canvas of usable   *)
(* width 1..MaxChartWidth, the response to the request made at load brings  *)
(* a dataset of 0..MaxBars buckets, and the window is resized: the canvas   *)
(* takes a rectangle of LayoutRects, the resize listener runs.              *)

LayoutSurfaces ==
    {[width |-> PadLeft + PadRight + w, height |-> 200] : w \in 1..MaxChartWidth}

\* the rectangles the canvas is resized to: usable widths 23 (three bars end on
\* pixel 79) and MaxChartWidth
LayoutRects ==
    {[width |-> PadLeft + PadRight + w, height |-> 200] : w \in {23, MaxChartWidth}}

\* datasets of 0..MaxBars buckets, of 1..MaxBars buckets without any tokens, of
\* one and two buckets with half a token and of one bucket with a quarter
LayoutDatasetIds == 0..MaxBars \cup {100 + n : n \in 1..MaxBars} \cup {201, 202, 301}

\* pointer positions over the bars, on their edges (79 is the right edge of the
\* last of three bars on a usable width of 23), between and above them
LayoutPointers == {56, 58, 60, 64, 79} \X {20, 100, 166}

InitLayout ==
    /\ selected = "all"
    /\ cache = <<>>
    /\ chartData = <<>>
    /\ granularity = "day"
    /\ barRects = <<>>
    /\ hoverIndex = Null
    /\ activeButton = "all"
    /\ header = [windowLabel |-> "", kind |-> "", start |-> 0, end |-> 0]
    /\ stats = [uptimePct |-> Placeholder, costUsd |-> Placeholder]
    /\ chartTitle = ""
    /\ rangeBoxVisible = FALSE
    /\ boundingRect \in LayoutSurfaces
    /\ surface = boundingRect
    /\ inflight = {WindowRequest(1, "all")}
    /\ issued = 1
    /\ lastEvent = Event("load", "all", 1, Null, "", "")
    /\ frame = BlankFrame
    /\ tickCall = NoTickCall
    /\ drew = FALSE

NextLayout ==
    \/ \E r \in inflight, d \in LayoutDatasetIds : SelectResolved(r, d)
    \/ \E s \in LayoutRects : BoundingRectChange(s)
    \/ Resize
    \/ \E p \in LayoutPointers : MouseMove(p[1], p[2])

SpecLayout == InitLayout /\ [][NextLayout]_vars

----------------------------------------------------------------------------
(* getLinearTicks on its own: the function is called with every integer     *)
(* argument in -MaxNegTokens..MaxTickTokens, directly or by the drawChart()  *)
(* of the response to the request made at load.                             *)

TickArguments == (0 - MaxNegTokens)..MaxTickTokens

GetLinearTicksCall(maxTokens) ==
    /\ tickCall' = [maxTokens |-> maxTokens, unit |-> 1, tickDen |-> 10,
                    ticks |-> getLinearTicks(maxTokens)]
    /\ lastEvent' = Event("getLinearTicks", "", 0, Null, "", "")
    /\ drew' = FALSE
    /\ UNCHANGED <<selected, cache, chartData, granularity, barRects, hoverIndex,
                   activeButton, header, stats, chartTitle, rangeBoxVisible, surface,
                   boundingRect,
                   inflight, issued, frame>>

NextTicks ==
    \/ \E maxTokens \in TickArguments : GetLinearTicksCall(maxTokens)
    \/ \E r \in inflight, d \in DatasetIds : SelectResolved(r, d)

SpecTicks == Init /\ [][NextTicks]_vars

----------------------------------------------------------------------------
(* Properties of the selection / cache state machine. *)

ThenOps == {"setSelectedWindow.then", "applyCustomRange.then"}
CatchOps == {"setSelectedWindow.catch", "applyCustomRange.catch"}

\* C1: a setSelectedWindow(k) call made while the cache holds a dataset for k
\* issues no retrieval request and renders that dataset in the same step.
C1_CachedSelectIssuesNoRequest ==
    [][(lastEvent'.op = "setSelectedWindow" /\ lastEvent'.key \in DOMAIN cache) =>
          /\ issued' = issued
          /\ inflight' = inflight
          /\ cache' = cache
          /\ chartData' = cache[lastEvent'.key].token_buckets
          /\ barRects' = DrawChart(cache[lastEvent'.key].token_buckets, boundingRect)
          /\ stats' = updateStats(cache[lastEvent'.key])
          /\ header'.windowLabel = LabelOf(lastEvent'.key)]_vars

C1_Witness ==
    /\ lastEvent.op = "setSelectedWindow"
    /\ lastEvent.key \in DOMAIN cache
    /\ lastEvent.key # "custom"
    /\ stats.uptimePct.kind # "error"
    /\ chartData = cache[lastEvent.key].token_buckets
    /\ Len(chartData) > 0

\* C2: setSelectedWindow("custom") called while the cache has no custom entry
\* issues no request, empties the chart and shows placeholder stats; and the
\* custom entry only ever appears by a successful applyCustomRange response.
C2_UnappliedCustomIsPlaceholder ==
    [][/\ (lastEvent'.op = "setSelectedWindow" /\ lastEvent'.key = "custom"
             /\ "custom" \notin DOMAIN cache) =>
            /\ issued' = issued
            /\ inflight' = inflight
            /\ cache' = cache
            /\ chartData' = <<>>
            /\ barRects' = <<>>
            /\ stats'.uptimePct.kind = "--"
            /\ stats'.costUsd.kind = "--"
            /\ header'.kind = "Pick a range"
       /\ ("custom" \in DOMAIN cache' /\ "custom" \notin DOMAIN cache) =>
            lastEvent'.op = "applyCustomRange.then"]_vars

C2_Witness ==
    /\ lastEvent.op = "setSelectedWindow"
    /\ lastEvent.key = "custom"
    /\ "custom" \notin DOMAIN cache
    /\ "all" \in DOMAIN cache
    /\ Len(cache["all"].token_buckets) > 0
    /\ chartData = <<>>
    /\ stats.uptimePct.kind = "--"

\* C3: the step handling a failed retrieval (of setSelectedWindow or of
\* applyCustomRange) leaves the cache, the chart data, the bar geometry and the
\* hover index as they were; it only writes the error string into the stat display.
C3_FailureOnlyWritesError ==
    [][lastEvent'.op \in CatchOps =>
          /\ UNCHANGED <<cache, chartData, barRects, hoverIndex>>
          /\ UNCHANGED <<selected, activeButton, granularity, header, chartTitle,
                         rangeBoxVisible, surface, issued>>
          /\ stats' = [stats EXCEPT !.uptimePct = ErrorText(lastEvent'.a)]]_vars

C3_Witness ==
    /\ lastEvent.op = "setSelectedWindow.catch"
    /\ stats.uptimePct.kind = "error"
    /\ DOMAIN cache # {}
    /\ Len(chartData) > 0
    /\ Len(barRects) = Len(chartData)
    /\ hoverIndex # Null

\* C4 as stated: between events the rendered dataset is that of the active key
\* (or the placeholder of an un-applied custom).
C4_RenderedIsActiveWindow ==
    /\ activeButton = selected
    /\ activeButton \in DOMAIN cache =>
           chartData = cache[activeButton].token_buckets
    /\ activeButton \notin DOMAIN cache => chartData = <<>>

\* C4 amended: the indicator always names the one selected key, and a step that
\* handles a selection or changes the selected key renders, in that same step,
\* the new key's cached dataset (or the placeholder of an un-applied custom)
\* whenever there is one.
C4_IndicatorFollowsSelection ==
    /\ [](activeButton = selected /\ selected \in WindowKeys)
    /\ [][(lastEvent'.op = "setSelectedWindow" \/ selected' # selected) =>
             /\ activeButton' = selected'
             /\ selected' \in DOMAIN cache' =>
                  /\ chartData' = cache'[selected'].token_buckets
                  /\ stats' = updateStats(cache'[selected'])
                  /\ header'.windowLabel = LabelOf(selected')
             /\ (selected' = "custom" /\ "custom" \notin DOMAIN cache') =>
                  /\ chartData' = <<>>
                  /\ stats'.uptimePct.kind = "--"]_vars

\* a cached window is selected while another window's dataset is also cached
C4_Witness ==
    /\ lastEvent.op = "setSelectedWindow"
    /\ lastEvent.key = "all"
    /\ activeButton = "all"
    /\ {"all", "custom"} \subseteq DOMAIN cache
    /\ cache["all"].token_buckets # cache["custom"].token_buckets
    /\ chartData = cache["all"].token_buckets

\* C5 as stated: every applyCustomRange call issues exactly one request.
C5_EveryApplyIssuesOneRequest ==
    [][lastEvent'.op = "applyCustomRange" =>
          /\ issued' = issued + 1
          /\ Cardinality(inflight' \ inflight) = 1]_vars

\* C5 amended: an applyCustomRange call with both inputs non-empty issues exactly
\* one request carrying that start and end, whether or not the cache holds a
\* custom entry; a call with an empty input issues none.
C5_ApplyIssuesOneRequestUnlessEmpty ==
    [][lastEvent'.op = "applyCustomRange" =>
          /\ cache' = cache
          /\ IF lastEvent'.a # "" /\ lastEvent'.b # ""
             THEN /\ issued' = issued + 1
                  /\ inflight \subseteq inflight'
                  /\ Cardinality(inflight' \ inflight) = 1
                  /\ \A r \in inflight' \ inflight :
                        /\ r.start = lastEvent'.a
                        /\ r.end = lastEvent'.b
                        /\ r.window = ""
             ELSE issued' = issued /\ inflight' = inflight]_vars

C5_Witness ==
    /\ lastEvent.op = "applyCustomRange"
    /\ lastEvent.a # ""
    /\ lastEvent.b # ""
    /\ "custom" \in DOMAIN cache
    /\ \E r \in inflight : r.id = issued /\ r.from = "applyCustomRange"

\* C6: the step applying a successful applyCustomRange response overwrites the
\* custom slot with the returned dataset, makes custom the active selection
\* whatever it was, and renders that dataset; no other slot changes.
C6_ApplySuccessOverwritesCustom ==
    [][lastEvent'.op = "applyCustomRange.then" =>
          /\ DOMAIN cache' = DOMAIN cache \cup {"custom"}
          /\ cache'["custom"] = Dataset(lastEvent'.data)
          /\ \A k \in DOMAIN cache \ {"custom"} : cache'[k] = cache[k]
          /\ selected' = "custom"
          /\ activeButton' = "custom"
          /\ chartData' = Dataset(lastEvent'.data).token_buckets
          /\ barRects' = DrawChart(chartData', boundingRect)]_vars

\* the response arrived after a window had been selected (request still pending)
\* later than the range request was issued
C6_Witness ==
    /\ lastEvent.op = "applyCustomRange.then"
    /\ selected = "custom"
    /\ \E r \in inflight : r.from = "setSelectedWindow" /\ r.id > lastEvent.req
    /\ chartData = cache["custom"].token_buckets
    /\ Len(chartData) > 0

\* C7: the cache's keys are window keys; an entry, once present, is never
\* removed, and the entry of key k changes only in the step applying a
\* successful response for k (for custom: a response of applyCustomRange).
C7_CacheChangesOnlyOnSuccess ==
    /\ [](DOMAIN cache \subseteq WindowKeys)
    /\ [][/\ DOMAIN cache \subseteq DOMAIN cache'
          /\ \A k \in DOMAIN cache' :
                (k \notin DOMAIN cache \/ cache'[k] # cache[k]) =>
                    /\ lastEvent'.op \in ThenOps
                    /\ lastEvent'.key = k
                    /\ cache'[k] = Dataset(lastEvent'.data)
                    /\ (k = "custom") <=> (lastEvent'.op = "applyCustomRange.then")]_vars

C7_Witness ==
    /\ lastEvent.op \in ThenOps
    /\ {"all", "custom"} \subseteq DOMAIN cache
    /\ cache["all"] # cache["custom"]

\* C8: nothing cancels a pending request.  Whatever the selection has become,
\* every pending setSelectedWindow request can still resolve with any dataset,
\* requests leave the pending set only by being settled, and the step applying
\* the response for key A stores it under A and renders it, the selection
\* staying what it is.
C8_StaleResponseStillApplied ==
    /\ [](\A r \in inflight : r.from = "setSelectedWindow" =>
             \A d \in DatasetIds : ENABLED SelectResolved(r, d))
    /\ [][/\ \A r \in inflight \ inflight' :
                lastEvent'.req = r.id /\ lastEvent'.op \in ThenOps \cup CatchOps
          /\ lastEvent'.op = "setSelectedWindow.then" =>
                /\ selected' = selected
                /\ activeButton' = activeButton
                /\ lastEvent'.key \in DOMAIN cache'
                /\ cache'[lastEvent'.key] = Dataset(lastEvent'.data)
                /\ chartData' = Dataset(lastEvent'.data).token_buckets
                /\ header'.windowLabel = LabelOf(lastEvent'.key)]_vars

\* the active selection is B while the chart shows the dataset of A # B
C8_Witness ==
    /\ lastEvent.op = "setSelectedWindow.then"
    /\ lastEvent.key # selected
    /\ activeButton = selected
    /\ chartData = cache[lastEvent.key].token_buckets
    /\ Len(chartData) > 0
    /\ header.windowLabel = LabelOf(lastEvent.key)

\* C9: requests are not de-duplicated.  A setSelectedWindow(k) call for an
\* uncached preset k, and an applyCustomRange call with both inputs filled,
\* issue a new request even while one with the same parameters is pending;
\* every successful response is applied, so the entry and the chart of k are
\* those of the response that resolved last, whatever the issue order.
C9_NoDeduplicationLastResolvedWins ==
    /\ [](\A r \in inflight : \A d \in DatasetIds :
             IF r.from = "setSelectedWindow"
             THEN ENABLED SelectResolved(r, d)
             ELSE ENABLED ApplyResolved(r, d))
    /\ [][/\ ( \/ /\ lastEvent'.op = "setSelectedWindow"
                  /\ lastEvent'.key \notin DOMAIN cache \cup {"custom"}
               \/ /\ lastEvent'.op = "applyCustomRange"
                  /\ lastEvent'.a # "" /\ lastEvent'.b # "" ) =>
                /\ Cardinality(inflight') = Cardinality(inflight) + 1
                /\ \E r \in inflight' \ inflight : r.id = issued + 1
          /\ lastEvent'.op \in ThenOps =>
                /\ lastEvent'.key \in DOMAIN cache'
                /\ cache'[lastEvent'.key] = Dataset(lastEvent'.data)
                /\ chartData' = Dataset(lastEvent'.data).token_buckets
                /\ stats' = updateStats(Dataset(lastEvent'.data))]_vars

\* the later-issued of two requests for one key has been applied while the
\* earlier-issued one is still pending
C9_Witness ==
    /\ lastEvent.op = "setSelectedWindow.then"
    /\ \E r \in inflight :
          /\ r.from = "setSelectedWindow"
          /\ r.window = lastEvent.key
          /\ r.id < lastEvent.req
    /\ cache[lastEvent.key] = Dataset(lastEvent.data)
    /\ chartData = cache[lastEvent.key].token_buckets

----------------------------------------------------------------------------
(* Properties of the layout engine, under SpecLayout. *)

\* the gap between the first two bars, in 1/xden pixel
GapOf(rects) == rects[2].x - rects[1].x - rects[1].width

\* N * width + (N - 1) * gap, in 1/xden pixel
SpanOf(rects) == Len(rects) * rects[1].width + (Len(rects) - 1) * GapOf(rects)

\* C10 as stated: for N >= 2 bars and positive usable width W', width >= 3,
\* gap in [1, 10] and N * width + (N - 1) * gap <= W'.
C10_PackingFitsUsableWidth ==
    (Len(chartData) >= 2 /\ ChartWidth(surface) > 0) =>
        /\ Len(barRects) = Len(chartData)
        /\ \A i \in 1..Len(barRects) : barRects[i].width >= 3 * barRects[i].xden
        /\ GapOf(barRects) >= 1 * barRects[1].xden
        /\ GapOf(barRects) <= 10 * barRects[1].xden
        /\ SpanOf(barRects) <= ChartWidth(surface) * barRects[1].xden

\* C10 amended: for N >= 2 and W' > 0, width >= 3 and gap in [1, 10]; the span
\* is exactly W' when W' >= 4N - 1, and otherwise width = 3, gap = 1 and the
\* span 4N - 1 exceeds W'.
C10_PackingFitsWhenWideEnough ==
    (Len(chartData) >= 2 /\ ChartWidth(surface) > 0) =>
        LET N == Len(chartData)
            W == ChartWidth(surface)
            D == barRects[1].xden
        IN  /\ Len(barRects) = N
            /\ \A i \in 1..N : barRects[i].width = barRects[1].width
            /\ \A i \in 1..(N - 1) :
                  barRects[i + 1].x - barRects[i].x - barRects[i].width = GapOf(barRects)
            /\ barRects[1].width >= 3 * D
            /\ GapOf(barRects) >= 1 * D
            /\ GapOf(barRects) <= 10 * D
            /\ IF W >= 4 * N - 1
               THEN SpanOf(barRects) = W * D
               ELSE /\ barRects[1].width = 3 * D
                    /\ GapOf(barRects) = 1 * D
                    /\ SpanOf(barRects) = (4 * N - 1) * D

\* a chart of several bars redrawn on a surface wide enough for them, neither
\* clamp binding
C10_Witness ==
    /\ lastEvent.op = "resize"
    /\ Len(chartData) >= 3
    /\ ChartWidth(surface) >= 4 * Len(chartData) - 1
    /\ Len(barRects) = Len(chartData)
    /\ GapOf(barRects) > 1 * barRects[1].xden
    /\ GapOf(barRects) < 10 * barRects[1].xden
    /\ barRects[1].width > 3 * barRects[1].xden


----------------------------------------------------------------------------
(* Properties of getLinearTicks. *)

RECURSIVE Pow10(_)
Pow10(e) == IF e = 0 THEN 1 ELSE 10 * Pow10(e - 1)

\* ticks are kept in tenths, so 10^m is Pow10(m + 1) tenths for m >= -1
TickExponents == 0..4
TickStepOf(call) == call.ticks[2] - call.ticks[1]

\* C11: after a call of getLinearTicks(maxTokens) with maxTokens > 0, the step is
\* k * 10^m with k in {1, 2, 5}, where 10^m <= maxTokens / 4 < 10^(m+1) and k is
\* 5, 2 or 1 as maxTokens / 4 / 10^m is >= 5, >= 2 or below 2; the ticks are
\* 0, step, 2 * step, ... ; and the last tick is within half a step of maxTokens.
C11_TicksFollowOneTwoFiveRule ==
    (tickCall.ticks # <<>> /\ tickCall.maxTokens > 0) =>
        LET ticks == tickCall.ticks
            max10 == 10 * tickCall.maxTokens
            step == TickStepOf(tickCall)
            last == ticks[Len(ticks)]
        IN  /\ Len(ticks) >= 2
            /\ \E e \in TickExponents, k \in {1, 2, 5} :
                   /\ step = k * Pow10(e)
                   /\ 4 * Pow10(e) <= max10
                   /\ max10 < 4 * Pow10(e + 1)
                   /\ (k = 5) <=> (max10 >= 20 * Pow10(e))
                   /\ (k = 1) <=> (max10 < 8 * Pow10(e))
            /\ \A i \in 1..Len(ticks) : ticks[i] = (i - 1) * step
            /\ 2 * last >= 2 * max10 - step
            /\ 2 * last <= 2 * max10 + step

\* a call whose rough step 250 / 4 = 62.5 is rounded down to 50: ticks 0, 50, ..., 250
C11_Witness ==
    /\ lastEvent.op = "getLinearTicks"
    /\ tickCall.maxTokens = 250
    /\ tickCall.ticks = <<0, 500, 1000, 1500, 2000, 2500>>


\* C12: drawing an empty bucket sequence leaves no bar rectangle and the tick
\* list [0]; drawing a single bucket leaves exactly one rectangle, which starts at
\* the left padding and is as wide as the usable width; and getLinearTicks
\* returns [0] for 0 and for every negative argument.
C12_DegenerateInputs ==
    /\ (frame # BlankFrame /\ chartData = <<>>) =>
           /\ barRects = <<>>
           /\ frame.ticks = <<0>>
    /\ (frame # BlankFrame /\ Len(chartData) = 1) =>
           /\ Len(barRects) = 1
           /\ barRects[1].x = PadLeft * barRects[1].xden
           /\ barRects[1].width = ChartWidth(surface) * barRects[1].xden
    /\ (tickCall # NoTickCall /\ tickCall.maxTokens <= 0) => tickCall.ticks = <<0>>

\* the empty dataset has been drawn and getLinearTicks was then called with a
\* negative argument
C12_Witness ==
    /\ frame # BlankFrame
    /\ chartData = <<>>
    /\ barRects = <<>>
    /\ lastEvent.op = "getLinearTicks"
    /\ tickCall.maxTokens < 0
    /\ tickCall.ticks = <<0>>


----------------------------------------------------------------------------
(* Properties of the drawn geometry. *)

TokenCounts(entries) == {entries[j].tokens : j \in 1..Len(entries)}
NonZero(entries) == {j \in 1..Len(entries) : entries[j].tokens # 0}

\* C13 as stated: once drawn, every bar is scaled by the same denominator, the
\* larger of 1 token and the largest token count; bar i is tokens_i / denominator
\* of the usable height high, hence between 0 and the usable height; without
\* any tokens every bar has height 0, and a bar that alone has tokens has the
\* usable height. (Token counts and the denominator are in units of 1/unit
\* token; one token is TokenUnit(chartData) units.)
C13_HeightsScaledByMaxValue ==
    (frame # BlankFrame) =>
        /\ Len(barRects) = Len(chartData)
        /\ \A i \in 1..Len(barRects) :
              LET bar == barRects[i]
                  usable == ChartHeight(surface)
                  candidates == TokenCounts(chartData) \cup {TokenUnit(chartData)}
              IN  /\ bar.yden >= 1
                  /\ \A t \in candidates : bar.yden >= t
                  /\ bar.yden \in candidates
                  /\ bar.height = chartData[i].tokens * usable
                  /\ bar.height >= 0
                  /\ bar.height <= usable * bar.yden
                  /\ (NonZero(chartData) = {}) => bar.height = 0
                  /\ (NonZero(chartData) = {i}) => bar.height = usable * bar.yden

\* C13, amended: once drawn, every bar is scaled by the same denominator, the
\* largest token count when that is positive and 1 token when it is 0; bar i is
\* tokens_i / denominator of the usable height high, hence between 0 and the
\* usable height; without any tokens every bar has height 0, and a bar that
\* alone has tokens has the usable height.
C13_HeightsScaledByMaxTokensOrOne ==
    (frame # BlankFrame) =>
        /\ Len(barRects) = Len(chartData)
        /\ \A i \in 1..Len(barRects) :
              LET bar == barRects[i]
                  usable == ChartHeight(surface)
              IN  /\ bar.yden >= 1
                  /\ IF NonZero(chartData) = {}
                     THEN bar.yden = TokenUnit(chartData)
                     ELSE /\ bar.yden \in TokenCounts(chartData)
                          /\ \A t \in TokenCounts(chartData) : bar.yden >= t
                  /\ bar.height = chartData[i].tokens * usable
                  /\ bar.height >= 0
                  /\ bar.height <= usable * bar.yden
                  /\ (NonZero(chartData) = {}) => bar.height = 0
                  /\ (NonZero(chartData) = {i}) => bar.height = usable * bar.yden

\* two buckets, half a token and none: the denominator is half a token, the
\* first bar has the usable height and the second bar height 0
C13_Witness ==
    /\ lastEvent.op = "setSelectedWindow.then"
    /\ Len(barRects) = 2
    /\ TokenUnit(chartData) = 2
    /\ chartData[1].tokens = 1
    /\ NonZero(chartData) = {1}
    /\ barRects[1].yden = 1
    /\ barRects[1].height = ChartHeight(surface) * barRects[1].yden
    /\ barRects[2].height = 0


StrictlyInside(bar, x, y) ==
    /\ x * bar.xden > bar.x
    /\ x * bar.xden < bar.x + bar.width
    /\ y * bar.yden > bar.y
    /\ y * bar.yden < bar.y + bar.height

Outside(bar, x, y) ==
    \/ x * bar.xden < bar.x
    \/ x * bar.xden > bar.x + bar.width
    \/ y * bar.yden < bar.y
    \/ y * bar.yden > bar.y + bar.height

\* C14: a mousemove at a point strictly inside the i-th rectangle of the geometry
\* computed by the last drawChart() and outside all the others sets the hover
\* index to that rectangle's index; at a point outside every rectangle it sets
\* the hover index to none.
C14_HitTestSelectsContainingBar ==
    [][(lastEvent'.op = "mousemove") =>
          LET x == lastEvent'.a
              y == lastEvent'.b
          IN  /\ \A i \in 1..Len(barRects) :
                    (/\ StrictlyInside(barRects[i], x, y)
                     /\ \A j \in 1..Len(barRects) \ {i} : Outside(barRects[j], x, y))
                    => hoverIndex' = i - 1
              /\ (\A i \in 1..Len(barRects) : Outside(barRects[i], x, y))
                    => hoverIndex' = Null]_vars

\* the pointer is inside the second of three bars, which is now the hovered one
C14_Witness ==
    /\ lastEvent.op = "mousemove"
    /\ Len(barRects) = 3
    /\ hoverIndex = 1
    /\ StrictlyInside(barRects[2], lastEvent.a, lastEvent.b)
    /\ Outside(barRects[1], lastEvent.a, lastEvent.b)
    /\ Outside(barRects[3], lastEvent.a, lastEvent.b)


\* C15: in every state the geometry list has one rectangle per rendered bucket,
\* the i-th rectangle carries index i (counted from 0), and a rectangle ends
\* before the next one starts, so no pointer position is in two rectangles.
C15_GeometryMatchesBuckets ==
    /\ Len(barRects) = Len(chartData)
    /\ \A i \in 1..Len(barRects) : barRects[i].index = i - 1
    /\ ChartWidth(surface) > 0 =>
           /\ \A i, j \in 1..Len(barRects) :
                  i < j => barRects[i].x + barRects[i].width < barRects[j].x
           /\ \A p \in LayoutPointers :
                  Cardinality({i \in 1..Len(barRects) :
                                  TRUE \in Contains(barRects[i], p[1], p[2])}) <= 1

\* six bars drawn on a usable width too narrow for them, then the pointer moved
C15_Witness ==
    /\ lastEvent.op = "mousemove"
    /\ Len(chartData) = 6
    /\ Len(barRects) = 6
    /\ ChartWidth(surface) < 4 * 6 - 1
    /\ barRects[6].index = 5


----------------------------------------------------------------------------
(* Properties of the pointer and resize listeners. *)

ChartOps == {"mousemove", "mouseleave", "resize"}

\* C16: a mousemove, mouseleave or resize step issues no request and leaves the
\* cache, the selection and the rendered chart data as they were; a resize step
\* always calls drawChart() for the rectangle the canvas has by then and keeps
\* the hover index.
C16_ChartEventsOnlyRedraw ==
    [][(lastEvent'.op \in ChartOps) =>
          /\ issued' = issued
          /\ inflight' = inflight
          /\ cache' = cache
          /\ selected' = selected
          /\ activeButton' = activeButton
          /\ chartData' = chartData
          /\ (lastEvent'.op = "resize") =>
                 /\ drew'
                 /\ surface' = boundingRect
                 /\ barRects' = DrawChart(chartData, boundingRect)
                 /\ hoverIndex' = hoverIndex]_vars

\* a resize while a bar is hovered and a request is in flight: redrawn, still hovered
C16_Witness ==
    /\ lastEvent.op = "resize"
    /\ drew
    /\ hoverIndex = 0
    /\ Len(barRects) = 1
    /\ inflight # {}

\* C17: a mousemove step stores the hit-tested index and calls drawChart() exactly
\* when that index differs from the stored one; a mouseleave step calls
\* drawChart() exactly when a hover index was stored, and leaves none stored.
C17_HoverRedrawsOnlyOnChange ==
    [][/\ (lastEvent'.op = "mousemove") =>
             /\ hoverIndex' \in HitIndex(barRects, lastEvent'.a, lastEvent'.b)
             /\ drew' <=> (hoverIndex' # hoverIndex)
       /\ (lastEvent'.op = "mouseleave") =>
             /\ hoverIndex' = Null
             /\ drew' <=> (hoverIndex # Null)]_vars

\* the pointer moved within the hovered bar: nothing was redrawn
C17_Witness ==
    /\ lastEvent.op = "mousemove"
    /\ hoverIndex = 0
    /\ HitIndex(barRects, lastEvent.a, lastEvent.b) = {0}
    /\ ~drew


\* C18: a drawChart() that follows a drawChart() with the chart data, the hover
\* index and the surface unchanged (a resize event that finds the rectangle of
\* the last call, taken right after a step that drew) leaves the geometry list and the frame as the
\* first call left them, and changes nothing else.
C18_RedrawIsIdempotent ==
    [][(drew /\ lastEvent'.op = "resize" /\ surface' = surface) =>
          /\ drew'
          /\ barRects' = barRects
          /\ frame' = frame
          /\ UNCHANGED <<selected, cache, chartData, granularity, hoverIndex,
                         activeButton, header, stats, chartTitle, rangeBoxVisible,
                         inflight, issued, tickCall>>]_vars

\* three bars, the second hovered, drawn again by a resize event
C18_Witness ==
    /\ lastEvent.op = "resize"
    /\ drew
    /\ Len(barRects) = 3
    /\ hoverIndex = 1
    /\ frame.hoverBar = 1
    /\ barRects = DrawChart(chartData, surface)


----------------------------------------------------------------------------
(* Properties relating the chart to the cache and to the hover index. *)

\* C19: in every state the rendered chart data is empty or is the bucket sequence
\* of a dataset the cache holds.
C19_ChartDataIsCached ==
    \/ chartData = <<>>
    \/ \E k \in DOMAIN cache : chartData = cache[k].token_buckets

\* a request for the selected window has failed; the chart still shows the
\* buckets cached for another window
C19_Witness ==
    /\ lastEvent.op \in CatchOps
    /\ chartData # <<>>
    /\ selected \notin DOMAIN cache
    /\ \E k \in DOMAIN cache : chartData = cache[k].token_buckets

\* C20 as stated: in every state the hover index is none or the index of a
\* rectangle of the geometry list.
C20_HoverIndexAlwaysInRange ==
    \/ hoverIndex = Null
    \/ hoverIndex \in 0..(Len(barRects) - 1)

PointerOps == {"mousemove", "mouseleave"}

\* C20, amended: right after a mousemove or mouseleave step the hover index is
\* none or the index of a rectangle of the geometry list, and no other step
\* changes the hover index.
C20_HoverIndexInRangeAfterPointerEvent ==
    [][/\ (lastEvent'.op \in PointerOps) =>
             \/ hoverIndex' = Null
             \/ hoverIndex' \in 0..(Len(barRects') - 1)
       /\ (lastEvent'.op \notin PointerOps) => hoverIndex' = hoverIndex]_vars

\* the pointer has moved onto the only bar, which carries the hover label
C20_Witness ==
    /\ lastEvent.op = "mousemove"
    /\ drew
    /\ Len(barRects) = 1
    /\ hoverIndex = 0
    /\ frame.hoverBar = 0

====
